---------------------------- MODULE Spec2Model ----------------------------
(***************************************************************************)
(* A model of duckling_mallard_analysis/testing.py: the span extractor,    *)
(* the two recognizer clients, the two response normalizers, the           *)
(* correctness evaluators, the cross-recognizer comparator, the conflict   *)
(* detector and the regression aggregation of the driver.                  *)
(*                                                                         *)
(* Python values are modelled as follows.  A str is a sequence of          *)
(* one-character strings; a list is a sequence; a tuple is a tuple; a dict *)
(* is a function whose DOMAIN is its key set; None is the string "None".   *)
(* Offsets and list indices keep Python's 0-based values; only the         *)
(* sequence accesses of the model add 1.                                   *)
(***************************************************************************)
EXTENDS Integers, Sequences, FiniteSets, TLC

VARIABLES
    \* evaluate_ser / evaluate_ser_errors applied to arbitrary inputs
    entity,               \* list, per query, of (start, end, label) tuples
    outputs,              \* list of parsed outputs
    ser,                  \* what evaluate_ser returned
    ser_errors,           \* what evaluate_ser_errors returned
    regression_indices,   \* the index list evaluate_ser_errors was re-run on
    eval_pc,
    \* the driver (__main__), lines 339-346
    entity_spans,
    mallard_outputs,
    duckling_outputs,
    correct_mallard,
    incorrect_mallard,
    correct_duckling,
    incorrect_duckling,
    duckling_regressions,
    main_pc,
    \* compare_mallard_duckling
    mallards,
    ducklings,
    compared,             \* what compare_mallard_duckling returned
    compare_pc,
    \* find_duckling_conflict_queries
    conflict_inputs,      \* its parameter duckling_outputs
    conflict_responses,
    conflict_pc,
    \* get_expected_spans
    clean,                \* queries with no entity labels
    labeled,              \* queries with entity labels
    all_spans,
    spans_pc,
    \* get_mallard_results / get_duckling_results
    queries,
    mallard_i,            \* the loop index of get_mallard_results
    mallard_responses,    \* its list responses
    duckling_i,           \* the loop index of get_duckling_results
    duckling_responses,   \* its list responses
    \* parse_mallard_response / parse_duckling_response
    recognizer,           \* which of the two normalizers is called
    response,             \* its parameter
    possible_entities,    \* what it returned
    parse_pc

evalVars == <<entity, outputs, ser, ser_errors, regression_indices, eval_pc>>

mainVars ==
    <<entity_spans, mallard_outputs, duckling_outputs, correct_mallard,
      incorrect_mallard, correct_duckling, incorrect_duckling,
      duckling_regressions, main_pc>>

compareVars == <<mallards, ducklings, compared, compare_pc>>

conflictVars == <<conflict_inputs, conflict_responses, conflict_pc>>

spanVars == <<clean, labeled, all_spans, spans_pc>>

fetchVars ==
    <<queries, mallard_i, mallard_responses, duckling_i, duckling_responses>>

parseVars == <<recognizer, response, possible_entities, parse_pc>>

vars ==
    <<evalVars, mainVars, compareVars, conflictVars, spanVars, fetchVars,
      parseVars>>

\* what an action of one component leaves alone
exceptEval ==
    <<mainVars, compareVars, conflictVars, spanVars, fetchVars, parseVars>>

exceptMain ==
    <<evalVars, compareVars, conflictVars, spanVars, fetchVars, parseVars>>

exceptCompare ==
    <<evalVars, mainVars, conflictVars, spanVars, fetchVars, parseVars>>

exceptConflict ==
    <<evalVars, mainVars, compareVars, spanVars, fetchVars, parseVars>>

exceptSpans ==
    <<evalVars, mainVars, compareVars, conflictVars, fetchVars, parseVars>>

exceptFetch ==
    <<evalVars, mainVars, compareVars, conflictVars, spanVars, parseVars>>

exceptParse ==
    <<evalVars, mainVars, compareVars, conflictVars, spanVars, fetchVars>>

\* the value of every variable of a component a specification leaves out
Idle == "idle"

IdleEval ==
    /\ entity = Idle /\ outputs = Idle /\ ser = Idle /\ ser_errors = Idle
    /\ regression_indices = Idle /\ eval_pc = Idle

IdleMain ==
    /\ entity_spans = Idle /\ mallard_outputs = Idle /\ duckling_outputs = Idle
    /\ correct_mallard = Idle /\ incorrect_mallard = Idle
    /\ correct_duckling = Idle /\ incorrect_duckling = Idle
    /\ duckling_regressions = Idle /\ main_pc = Idle

IdleCompare ==
    /\ mallards = Idle /\ ducklings = Idle /\ compared = Idle
    /\ compare_pc = Idle

IdleConflict ==
    /\ conflict_inputs = Idle /\ conflict_responses = Idle
    /\ conflict_pc = Idle

IdleSpans ==
    /\ clean = Idle /\ labeled = Idle /\ all_spans = Idle /\ spans_pc = Idle

IdleFetch ==
    /\ queries = Idle /\ mallard_i = Idle /\ mallard_responses = Idle
    /\ duckling_i = Idle /\ duckling_responses = Idle

IdleParse ==
    /\ recognizer = Idle /\ response = Idle /\ possible_entities = Idle
    /\ parse_pc = Idle

---------------------------------------------------------------------------
(* Bounds of the model *)

\* longest list handed to an evaluator
MaxQueries == 2

\* longest list of the driver
MaxCorpus == 2

\* longest list handed to the comparator
MaxCompared == 1

\* longest list handed to the conflict detector
MaxConflictInputs == 2

---------------------------------------------------------------------------
(* Python helpers *)

None == "None"

EmptyDict == [k \in {} |-> None]

Put(d, k, v) == [x \in (DOMAIN d) \cup {k} |-> IF x = k THEN v ELSE d[x]]

Min(a, b) == IF a <= b THEN a ELSE b

\* x in list
InList(x, list) == \E k \in 1..Len(list) : list[k] = x

\* list.count(x)
Count(list, x) == Cardinality({k \in 1..Len(list) : list[k] = x})

ElemsOf(list) == {list[k] : k \in 1..Len(list)}

\* len(zip(a, b))
ZipLen(a, b) == Min(Len(a), Len(b))

SeqsUpTo(S, n) == UNION {[1..m -> S] : m \in 0..n}

\* every ordering of a finite set as a list: list(set(...)) fixes no order
Orderings(S) ==
    {q \in [1..Cardinality(S) -> S] :
        \A a, b \in 1..Cardinality(S) : q[a] = q[b] => a = b}

\* the elements of a set of integers as an ascending list
Ascending(S) ==
    CHOOSE q \in Orderings(S) : \A a, b \in 1..Len(q) : a < b => q[a] < q[b]

---------------------------------------------------------------------------
(* Input domains of the evaluators *)

Number == "number"
Time == "time"
Money == "amount-of-money"

SpanA == <<0, 1>>
SpanB == <<2, 3>>
SpanKeys == {SpanA, SpanB}

\* an inner dict: span -> value, never empty (the normalizers create a
\* dimension's dict only when they store a span in it)
SpanDicts == {[s \in K |-> "v"] : K \in (SUBSET SpanKeys) \ {{}}}

\* parsed outputs over a set of dimensions
OutputsOver(dims) == UNION {[D -> SpanDicts] : D \in SUBSET dims}

\* ground truth of one query, as get_expected_spans builds it: spans in
\* increasing, non-overlapping order.  The evaluators treat every label and
\* every span alike, so the first entity is fixed to (SpanA, first) and the
\* outputs range over every dimension and span.
GroundTruths(first, labels) ==
    {<<>>, << <<SpanA[1], SpanA[2], first>> >>}
        \cup {<< <<SpanA[1], SpanA[2], first>>, <<SpanB[1], SpanB[2], l2>> >> :
                l2 \in labels}

---------------------------------------------------------------------------
(* evaluate_ser *)

\* mutant of EntityFound: the span test is dropped
EntityFoundLabelOnly(ent, output) == ent[3] \in DOMAIN output

\* the inner loop: correct stays True iff no entity clears it
EntityFound(ent, output) ==
    LET span == <<ent[1], ent[2]>>
        entity_type == ent[3]
    IN  IF entity_type \notin DOMAIN output
        THEN FALSE
        ELSE span \in DOMAIN output[entity_type]

QueryCorrect(entity_info, output) ==
    \A k \in 1..Len(entity_info) : EntityFound(entity_info[k], output)

RECURSIVE EvaluateSerLoop(_, _, _, _)
EvaluateSerLoop(ents, outs, i, acc) ==
    IF i >= ZipLen(ents, outs)
    THEN acc
    ELSE EvaluateSerLoop(ents, outs, i + 1,
            IF QueryCorrect(ents[i + 1], outs[i + 1])
            THEN [acc EXCEPT !.correct_queries = Append(@, i)]
            ELSE [acc EXCEPT !.incorrect_queries = Append(@, i)])

evaluate_ser(ents, outs) ==
    EvaluateSerLoop(ents, outs, 0,
        [correct_queries |-> <<>>, incorrect_queries |-> <<>>])

---------------------------------------------------------------------------
(* evaluate_ser_errors *)

\* "if i not in <list>: <list>.append(i)"
AppendIfAbsent(list, i) == IF InList(i, list) THEN list ELSE Append(list, i)

\* one pass of the inner loop over the entities of query i
RECURSIVE ErrorsInnerLoop(_, _, _, _, _)
ErrorsInnerLoop(entity_info, output, i, k, st) ==
    IF k > Len(entity_info)
    THEN st
    ELSE LET ent == entity_info[k]
             span == <<ent[1], ent[2]>>
             entity_type == ent[3]
         IN  ErrorsInnerLoop(entity_info, output, i, k + 1,
                IF entity_type \notin DOMAIN output
                THEN [st EXCEPT
                        !.missed_entity_indices = AppendIfAbsent(@, i),
                        !.missed_entity = TRUE]
                ELSE IF span \notin DOMAIN output[entity_type]
                     THEN [st EXCEPT
                            !.incorrect_span_indices = AppendIfAbsent(@, i),
                            !.incorrect_span = TRUE]
                     ELSE st)

\* mutant of NoErrorFlag: the incorrect_span flag is forgotten
NoErrorFlagMissedOnly(st) == ~st.missed_entity

\* the test that appends i to correct_indices
NoErrorFlag(st) == ~st.missed_entity /\ ~st.incorrect_span

RECURSIVE EvaluateSerErrorsLoop(_, _, _, _)
EvaluateSerErrorsLoop(ents, outs, i, acc) ==
    IF i >= ZipLen(ents, outs)
    THEN acc
    ELSE LET st == ErrorsInnerLoop(ents[i + 1], outs[i + 1], i, 1,
                       [acc EXCEPT !.missed_entity = FALSE,
                                   !.incorrect_span = FALSE])
         IN  EvaluateSerErrorsLoop(ents, outs, i + 1,
                IF NoErrorFlag(st)
                THEN [st EXCEPT !.correct_indices = Append(@, i)]
                ELSE st)

evaluate_ser_errors(ents, outs) ==
    LET r == EvaluateSerErrorsLoop(ents, outs, 0,
                [missed_entity_indices |-> <<>>,
                 incorrect_span_indices |-> <<>>,
                 correct_indices |-> <<>>,
                 missed_entity |-> FALSE,
                 incorrect_span |-> FALSE])
    IN  [missed_entity_indices |-> r.missed_entity_indices,
         incorrect_span_indices |-> r.incorrect_span_indices,
         correct_indices |-> r.correct_indices]

---------------------------------------------------------------------------
(* The regression set of the driver *)

\* list(set(incorrect_duckling)
\*        - set(incorrect_duckling).intersection(set(incorrect_mallard)))
RegressionSet(incorrect_d, incorrect_m) ==
    ElemsOf(incorrect_d) \ (ElemsOf(incorrect_d) \cap ElemsOf(incorrect_m))

\* [xs[i] for i in indices]
Pick(xs, indices) == [k \in 1..Len(indices) |-> xs[indices[k] + 1]]

---------------------------------------------------------------------------
(* SpecEval: the two evaluators as pure functions of arbitrary inputs *)

EvalLabels == {Number, Time}

NoResult == "not-run"

InitEval ==
    /\ entity \in SeqsUpTo(GroundTruths(Number, EvalLabels), MaxQueries)
    /\ outputs \in SeqsUpTo(OutputsOver(EvalLabels), MaxQueries)
    /\ ser = NoResult
    /\ ser_errors = NoResult
    /\ regression_indices = NoResult
    /\ eval_pc = "start"
    /\ IdleMain /\ IdleCompare /\ IdleConflict
    /\ IdleSpans /\ IdleFetch /\ IdleParse

EvaluateSer ==
    /\ eval_pc = "start"
    /\ ser' = evaluate_ser(entity, outputs)
    /\ eval_pc' = "scored"
    /\ UNCHANGED <<entity, outputs, ser_errors, regression_indices>>
    /\ UNCHANGED exceptEval

EvaluateSerErrors ==
    /\ eval_pc = "scored"
    /\ ser_errors' = evaluate_ser_errors(entity, outputs)
    /\ eval_pc' = "classified"
    /\ UNCHANGED <<entity, outputs, ser, regression_indices>>
    /\ UNCHANGED exceptEval

\* The driver's re-run: the regression indices are the incorrect indices of
\* this recognizer less those of the other one, whose verdicts may be any
\* list of indices (only those it shares with incorrect_queries change the
\* difference); list(set(...)) leaves their order open.
RerunOnRegressions ==
    /\ eval_pc = "scored"
    /\ \E other_incorrect \in SUBSET ElemsOf(ser.incorrect_queries) :
         \E order \in Orderings(RegressionSet(ser.incorrect_queries,
                                    Ascending(other_incorrect))) :
            /\ regression_indices' = order
            /\ ser_errors' = evaluate_ser_errors(Pick(entity, order),
                                                 Pick(outputs, order))
    /\ eval_pc' = "rerun"
    /\ UNCHANGED <<entity, outputs, ser>>
    /\ UNCHANGED exceptEval

NextEval == EvaluateSer \/ EvaluateSerErrors \/ RerunOnRegressions

SpecEval == InitEval /\ [][NextEval]_vars

---------------------------------------------------------------------------
(* compare_mallard_duckling *)

\* mutant of ExemptDimension: no dimension is skipped
ExemptNothing(type_) == FALSE

\* "if type_ == 'amount-of-money': continue"
ExemptDimension(type_) == type_ = Money

\* the body of the loop over one query: same stays True iff no duckling
\* dimension clears it
SamePredictions(mallard, duckling) ==
    \A type_ \in DOMAIN duckling :
        IF ExemptDimension(type_)
        THEN TRUE
        ELSE IF type_ \notin DOMAIN mallard
             THEN FALSE
             ELSE LET duckling_spans == DOMAIN duckling[type_]
                      mallard_spans == DOMAIN mallard[type_]
                  IN  \A d \in duckling_spans : d \in mallard_spans

RECURSIVE CompareLoop(_, _, _, _)
CompareLoop(ms, ds, i, acc) ==
    IF i >= ZipLen(ms, ds)
    THEN acc
    ELSE CompareLoop(ms, ds, i + 1,
            IF SamePredictions(ms[i + 1], ds[i + 1])
            THEN [acc EXCEPT !.present = Append(@, i)]
            ELSE [acc EXCEPT !.not_present = Append(@, i)])

compare_mallard_duckling(ms, ds) ==
    CompareLoop(ms, ds, 0, [present |-> <<>>, not_present |-> <<>>])

---------------------------------------------------------------------------
(* find_duckling_conflict_queries *)

RECURSIVE SumOver(_, _)
SumOver(S, f) ==
    IF S = {}
    THEN 0
    ELSE LET x == CHOOSE y \in S : TRUE
         IN  Cardinality(DOMAIN f[x]) + SumOver(S \ {x}, f)

\* mutant of FlattenedLength: the span keys are gathered into a set
FlattenedLengthOfSet(resp) ==
    Cardinality(UNION {DOMAIN resp[d] : d \in DOMAIN resp})

\* len(response_spans): every dimension's span keys, concatenated
FlattenedLength(resp) == SumOver(DOMAIN resp, resp)

\* len(set(response_spans))
DistinctSpans(resp) ==
    Cardinality(UNION {DOMAIN resp[d] : d \in DOMAIN resp})

RECURSIVE ConflictLoop(_, _, _)
ConflictLoop(outs, i, acc) ==
    IF i >= Len(outs)
    THEN acc
    ELSE ConflictLoop(outs, i + 1,
            IF FlattenedLength(outs[i + 1]) # DistinctSpans(outs[i + 1])
            THEN Put(acc, i, outs[i + 1])
            ELSE acc)

find_duckling_conflict_queries(outs) == ConflictLoop(outs, 0, EmptyDict)

---------------------------------------------------------------------------
(* SpecMain: the driver from the parsed outputs to the regression set *)

MainLabels == {Number}

InitMain ==
    /\ entity_spans \in SeqsUpTo(GroundTruths(Number, MainLabels), MaxCorpus)
    /\ mallard_outputs \in SeqsUpTo(OutputsOver(MainLabels), MaxCorpus)
    /\ duckling_outputs \in SeqsUpTo(OutputsOver(MainLabels), MaxCorpus)
    /\ correct_mallard = NoResult
    /\ incorrect_mallard = NoResult
    /\ correct_duckling = NoResult
    /\ incorrect_duckling = NoResult
    /\ duckling_regressions = NoResult
    /\ main_pc = "evaluate_mallard"
    /\ IdleEval /\ IdleCompare /\ IdleConflict
    /\ IdleSpans /\ IdleFetch /\ IdleParse

\* line 340
EvaluateMallard ==
    /\ main_pc = "evaluate_mallard"
    /\ LET r == evaluate_ser(entity_spans, mallard_outputs)
       IN  /\ correct_mallard' = r.correct_queries
           /\ incorrect_mallard' = r.incorrect_queries
    /\ main_pc' = "evaluate_duckling"
    /\ UNCHANGED <<entity_spans, mallard_outputs, duckling_outputs,
                   correct_duckling, incorrect_duckling, duckling_regressions>>
    /\ UNCHANGED exceptMain

\* line 341
EvaluateDuckling ==
    /\ main_pc = "evaluate_duckling"
    /\ LET r == evaluate_ser(entity_spans, duckling_outputs)
       IN  /\ correct_duckling' = r.correct_queries
           /\ incorrect_duckling' = r.incorrect_queries
    /\ main_pc' = "regressions"
    /\ UNCHANGED <<entity_spans, mallard_outputs, duckling_outputs,
                   correct_mallard, incorrect_mallard, duckling_regressions>>
    /\ UNCHANGED exceptMain

\* line 346
ComputeRegressions ==
    /\ main_pc = "regressions"
    /\ duckling_regressions'
            \in Orderings(RegressionSet(incorrect_duckling, incorrect_mallard))
    /\ main_pc' = "done"
    /\ UNCHANGED <<entity_spans, mallard_outputs, duckling_outputs,
                   correct_mallard, incorrect_mallard, correct_duckling,
                   incorrect_duckling>>
    /\ UNCHANGED exceptMain

NextMain == EvaluateMallard \/ EvaluateDuckling \/ ComputeRegressions

SpecMain == InitMain /\ [][NextMain]_vars

---------------------------------------------------------------------------
(* SpecCompare: the comparator as a pure function of arbitrary inputs *)

CompareDims == {Number, Money}

InitCompare ==
    /\ mallards \in SeqsUpTo(OutputsOver(CompareDims), MaxCompared)
    /\ ducklings \in SeqsUpTo(OutputsOver(CompareDims), MaxCompared)
    /\ compared = NoResult
    /\ compare_pc = "start"
    /\ IdleEval /\ IdleMain /\ IdleConflict
    /\ IdleSpans /\ IdleFetch /\ IdleParse

CompareMallardDuckling ==
    /\ compare_pc = "start"
    /\ compared' = compare_mallard_duckling(mallards, ducklings)
    /\ compare_pc' = "done"
    /\ UNCHANGED <<mallards, ducklings>>
    /\ UNCHANGED exceptCompare

NextCompare == CompareMallardDuckling

SpecCompare == InitCompare /\ [][NextCompare]_vars

---------------------------------------------------------------------------
(* SpecConflict: the conflict detector as a pure function of its input *)

ConflictDims == {Number, Time, Money}

InitConflict ==
    /\ conflict_inputs \in SeqsUpTo(OutputsOver(ConflictDims), MaxConflictInputs)
    /\ conflict_responses = NoResult
    /\ conflict_pc = "start"
    /\ IdleEval /\ IdleMain /\ IdleCompare
    /\ IdleSpans /\ IdleFetch /\ IdleParse

FindDucklingConflictQueries ==
    /\ conflict_pc = "start"
    /\ conflict_responses' = find_duckling_conflict_queries(conflict_inputs)
    /\ conflict_pc' = "done"
    /\ UNCHANGED conflict_inputs
    /\ UNCHANGED exceptConflict

NextConflict == FindDucklingConflictQueries

SpecConflict == InitConflict /\ [][NextConflict]_vars

---------------------------------------------------------------------------
(* Claims checked under SpecEval *)

\* what the specification calls a correct query: every ground-truth
\* (start, end, label) has its label among the keys of the output and its
\* (start, end) among the keys of output[label]
AllGroundTruthPresent(entity_info, output) ==
    \A k \in 1..Len(entity_info) :
        /\ entity_info[k][3] \in DOMAIN output
        /\ <<entity_info[k][1], entity_info[k][2]>>
                \in DOMAIN output[entity_info[k][3]]

\* C1: for lists of the same length n, every index 0..n-1 is in exactly one
\* of correct_queries / incorrect_queries, and index i is in correct_queries
\* iff every ground-truth entity of query i is present in outputs[i].
C1_EvaluateSerPartition ==
    (eval_pc # "start" /\ Len(entity) = Len(outputs)) =>
        /\ ElemsOf(ser.correct_queries) \cup ElemsOf(ser.incorrect_queries)
                \subseteq 0..(Len(entity) - 1)
        /\ \A i \in 0..(Len(entity) - 1) :
                /\ Count(ser.correct_queries, i)
                        + Count(ser.incorrect_queries, i) = 1
                /\ InList(i, ser.correct_queries)
                        <=> AllGroundTruthPresent(entity[i + 1], outputs[i + 1])

\* C1 witness: two queries scored, the first (with ground truth) correct,
\* the second incorrect
C1_Witness ==
    /\ eval_pc = "scored"
    /\ Len(entity) = 2 /\ Len(outputs) = 2
    /\ entity[1] # <<>>
    /\ ser.correct_queries = <<0>>
    /\ ser.incorrect_queries = <<1>>

\* C10: evaluate_ser_errors agrees with evaluate_ser on the same input:
\* correct_indices equals correct_queries, the union of the two sub-reason
\* lists equals incorrect_queries, neither sub-reason list repeats an index;
\* and the re-run on the regression subset finds no correct index.
C10_EvaluatorsAgree ==
    /\ eval_pc = "classified" =>
            /\ ser_errors.correct_indices = ser.correct_queries
            /\ ElemsOf(ser_errors.missed_entity_indices)
                    \cup ElemsOf(ser_errors.incorrect_span_indices)
                  = ElemsOf(ser.incorrect_queries)
            /\ \A i \in 0..(MaxQueries - 1) :
                    /\ Count(ser_errors.missed_entity_indices, i) <= 1
                    /\ Count(ser_errors.incorrect_span_indices, i) <= 1
    /\ eval_pc = "rerun" =>
            /\ ser_errors.correct_indices = <<>>
            /\ ElemsOf(ser_errors.missed_entity_indices)
                    \cup ElemsOf(ser_errors.incorrect_span_indices)
                  = 0..(Len(regression_indices) - 1)

\* C10 witness: a classified input with a correct query and a query tagged
\* with both sub-reasons
C10_Witness ==
    /\ eval_pc = "classified"
    /\ ser_errors.correct_indices # <<>>
    /\ \E i \in 0..(MaxQueries - 1) :
            /\ InList(i, ser_errors.missed_entity_indices)
            /\ InList(i, ser_errors.incorrect_span_indices)

---------------------------------------------------------------------------
(* Claims checked under SpecCompare *)

\* the span keys an output may carry under 'amount-of-money'; none when the
\* dimension is absent
MoneyOptions == SUBSET SpanKeys

\* the output with its 'amount-of-money' dimension removed or set
WithMoney(output, K) ==
    IF K = {}
    THEN [d \in (DOMAIN output) \ {Money} |-> output[d]]
    ELSE Put(output, Money, [s \in K |-> "v"])

\* C6: adding or removing the 'amount-of-money' dimension, with any spans,
\* in the Mallard output, the Duckling output or both, of any query never
\* changes what compare_mallard_duckling returns: every index stays in
\* present or stays in not_present, and is in exactly one of them.
C6_MoneyInsensitive ==
    compare_pc = "done" =>
        \A i \in 0..(ZipLen(mallards, ducklings) - 1) :
            /\ Count(compared.present, i) + Count(compared.not_present, i) = 1
            /\ \A x \in MoneyOptions, y \in MoneyOptions :
                    compare_mallard_duckling(
                        [mallards EXCEPT ![i + 1] = WithMoney(@, x)],
                        [ducklings EXCEPT ![i + 1] = WithMoney(@, y)])
                      = compared

\* C6 witness: Duckling predicts amount-of-money, Mallard does not, and the
\* query is present all the same
C6_Witness ==
    /\ compare_pc = "done"
    /\ Len(mallards) = 1 /\ Len(ducklings) = 1
    /\ DOMAIN ducklings[1] = {Number, Money}
    /\ DOMAIN mallards[1] = {Number}
    /\ compared.present = <<0>>

---------------------------------------------------------------------------
(* Claims checked under SpecConflict *)

\* some span key occurs under two different dimensions
SpanUnderTwoDimensions(output) ==
    \E d1 \in DOMAIN output, d2 \in DOMAIN output :
        /\ d1 # d2
        /\ (DOMAIN output[d1]) \cap (DOMAIN output[d2]) # {}

\* C7: index i is a key of the returned conflict set iff some span key
\* occurs under two different dimensions of outputs[i]; an output whose span
\* keys are all distinct across dimensions (the empty one too) is never in.
C7_ConflictIffSharedSpan ==
    conflict_pc = "done" =>
        /\ DOMAIN conflict_responses \subseteq 0..(Len(conflict_inputs) - 1)
        /\ \A i \in 0..(Len(conflict_inputs) - 1) :
                /\ i \in DOMAIN conflict_responses
                        <=> SpanUnderTwoDimensions(conflict_inputs[i + 1])
                /\ i \in DOMAIN conflict_responses
                        => conflict_responses[i] = conflict_inputs[i + 1]

\* C7 witness: two outputs with two dimensions each, only the second of
\* which repeats a span
C7_Witness ==
    /\ conflict_pc = "done"
    /\ Len(conflict_inputs) = 2
    /\ Cardinality(DOMAIN conflict_inputs[1]) = 2
    /\ Cardinality(DOMAIN conflict_inputs[2]) = 2
    /\ DOMAIN conflict_responses = {1}

---------------------------------------------------------------------------
(* Claims checked under SpecMain *)

\* C9: the regression set holds exactly the indices that evaluate_ser puts
\* in incorrect_duckling and in correct_mallard, whatever the lengths of the
\* three lists.
C9_RegressionsIncorrectBCorrectA ==
    main_pc = "done" =>
        ElemsOf(duckling_regressions)
            = ElemsOf(incorrect_duckling) \cap ElemsOf(correct_mallard)

---------------------------------------------------------------------------
(* Strings: a str is a sequence of one-character strings *)

\* s[from:to] for 0 <= from, with Python's clipping of to
Slice(s, from, to) == SubSeq(s, from + 1, Min(to, Len(s)))

\* the text lit stands in s at the 1-based position p
HasLiteralAt(s, p, lit) ==
    /\ p + Len(lit) - 1 <= Len(s)
    /\ \A j \in 1..Len(lit) : s[p + j - 1] = lit[j]

NotFound == -1

\* s.index(sub, start): the lowest offset >= start at which sub stands;
\* NotFound stands for the ValueError it raises
StrIndex(s, sub, start) ==
    LET hits == {i \in start..(Len(s) - Len(sub)) : HasLiteralAt(s, i + 1, sub)}
    IN  IF hits = {} THEN NotFound
        ELSE CHOOSE i \in hits : \A j \in hits : i <= j

\* '|' in x, x.index('|')
FirstPipe(x) ==
    LET hits == {i \in 0..(Len(x) - 1) : x[i + 1] = "|"}
    IN  IF hits = {} THEN NotFound
        ELSE CHOOSE i \in hits : \A j \in hits : i <= j

---------------------------------------------------------------------------
(* remove_role_and_sys *)

\* the 4 of x[4:index] and x[4:]: len('sys_')
SysPrefixLen == 4

remove_role_and_sys(x) ==
    IF FirstPipe(x) # NotFound
    THEN Slice(x, SysPrefixLen, FirstPipe(x))
    ELSE Slice(x, SysPrefixLen, Len(x))

---------------------------------------------------------------------------
(* The two patterns of get_expected_spans *)

\* Both patterns read: an open brace, one or more characters that are not
\* an open brace, the text |sys_, any number of non-whitespace characters,
\* a close brace.  The first pattern groups the characters before |sys_ (the
\* entity text), the second groups sys_ with the non-whitespace characters
\* after it (the label).  They differ in their group only, so re.findall
\* finds the same matches for both.

PipeSys == <<"|", "s", "y", "s", "_">>

OpenBrace == "{"

CloseBrace == "}"

\* the blank is the only whitespace of the modelled queries
Whitespace == " "

\* the longest run, from the 1-based position p, of characters other than
\* stop: what a greedy repetition of a negated class takes first
RECURSIVE RunLength(_, _, _)
RunLength(s, p, stop) ==
    IF p > Len(s) \/ s[p] = stop
    THEN 0
    ELSE 1 + RunLength(s, p + 1, stop)

\* the ways the pattern matches at p: n characters that are not an open
\* brace, then |sys_, then m non-whitespace characters, then a close brace
MatchesAt(s, p) ==
    IF p > Len(s) \/ s[p] # OpenBrace
    THEN {}
    ELSE UNION {
            LET q == p + 1 + n + Len(PipeSys)
            IN  {<<n, m>> : m \in {x \in 0..RunLength(s, q, Whitespace) :
                                    /\ q + x <= Len(s)
                                    /\ s[q + x] = CloseBrace}} :
            n \in {x \in 1..RunLength(s, p + 1, OpenBrace) :
                        HasLiteralAt(s, p + 1 + x, PipeSys)} }

\* the match the backtracking search finds first: both repetitions are
\* greedy, the left one is tried longest first, then the right one
GreedyMatch(s, p, all) ==
    LET n == CHOOSE x \in {nm[1] : nm \in all} : \A nm \in all : nm[1] <= x
        ms == {nm[2] : nm \in {z \in all : z[1] = n}}
        m == CHOOSE y \in ms : \A z \in ms : z <= y
        q == p + 1 + n + Len(PipeSys)
    IN  [text |-> SubSeq(s, p + 1, p + n),
         label |-> SubSeq(s, p + 1 + n + 1, q + m - 1),
         last |-> q + m]

\* re.findall: the non-overlapping matches, leftmost first
RECURSIVE FindAllFrom(_, _)
FindAllFrom(s, p) ==
    IF p > Len(s)
    THEN <<>>
    ELSE LET all == MatchesAt(s, p)
         IN  IF all = {}
             THEN FindAllFrom(s, p + 1)
             ELSE LET found == GreedyMatch(s, p, all)
                  IN  <<found>> \o FindAllFrom(s, found.last + 1)

\* entities = re.findall(<first pattern>, labeled_query)
FindEntities(labeled_query) ==
    LET ms == FindAllFrom(labeled_query, 1)
    IN  [k \in 1..Len(ms) |-> ms[k].text]

\* entity_labels = re.findall(<second pattern>, labeled_query), then
\* remove_role_and_sys of each
FindEntityLabels(labeled_query) ==
    LET ms == FindAllFrom(labeled_query, 1)
    IN  [k \in 1..Len(ms) |-> remove_role_and_sys(ms[k].label)]

---------------------------------------------------------------------------
(* get_expected_spans *)

\* mutant of EndIndex: the end offset is taken inclusive
EndIndexInclusive(start_index, e) == start_index + Len(e) - 1

\* end_index = start_index + len(e)
EndIndex(start_index, e) == start_index + Len(e)

\* mutant of NextStartPosition: the search never advances
StartPositionKept(end_index) == 0

\* start_position = end_index
NextStartPosition(end_index) == end_index

Raised == "ValueError"

\* the loop over zip(entities, entity_labels) of one query
RECURSIVE SpansLoop(_, _, _, _, _, _)
SpansLoop(clean_query, entities, entity_labels, k, start_position, spans) ==
    IF k > ZipLen(entities, entity_labels)
    THEN spans
    ELSE LET e == entities[k]
             start_index == StrIndex(clean_query, e, start_position)
             end_index == EndIndex(start_index, e)
         IN  IF start_index = NotFound
             THEN Raised
             ELSE SpansLoop(clean_query, entities, entity_labels, k + 1,
                    NextStartPosition(end_index),
                    Append(spans, <<start_index, end_index, entity_labels[k]>>))

QuerySpans(clean_query, labeled_query) ==
    SpansLoop(clean_query, FindEntities(labeled_query),
              FindEntityLabels(labeled_query), 1, 0, <<>>)

\* the loop over zip(clean, labeled): an exception leaves the function
RECURSIVE AllSpansLoop(_, _, _, _)
AllSpansLoop(cs, ls, i, acc) ==
    IF i >= ZipLen(cs, ls)
    THEN acc
    ELSE LET spans == QuerySpans(cs[i + 1], ls[i + 1])
         IN  IF spans = Raised
             THEN Raised
             ELSE AllSpansLoop(cs, ls, i + 1, Append(acc, spans))

get_expected_spans(cs, ls) == AllSpansLoop(cs, ls, 0, <<>>)

---------------------------------------------------------------------------
(* SpecSpans: the span extractor on a small annotated corpus *)

\* most segments (words or markers) of a generated query
MaxSegments == 3

\* the segments a generated query is made of: its annotated form and the
\* clean text it stands for
Segments ==
    { [labeled |-> <<"a", "t">>,
       clean |-> <<"a", "t">>],
      [labeled |-> <<"5">>,
       clean |-> <<"5">>],
      [labeled |-> <<"{", "5", "|", "s", "y", "s", "_", "n", "u", "m", "b", "e", "r", "}">>,
       clean |-> <<"5">>],
      [labeled |-> <<"{", "5", " ", "p", "m", "|", "s", "y", "s", "_", "t", "i", "m", "e", "|", "h", "o", "u", "r", "}">>,
       clean |-> <<"5", " ", "p", "m">>] }

\* ' '.join of one field of the segments
RECURSIVE JoinField(_, _)
JoinField(segs, labeledField) ==
    IF segs = <<>>
    THEN <<>>
    ELSE LET head == IF labeledField THEN segs[1].labeled ELSE segs[1].clean
         IN  IF Len(segs) = 1
             THEN head
             ELSE head \o <<" ">> \o JoinField(Tail(segs), labeledField)

\* the scenario of the specification
TimerClean ==
    <<"s", "e", "t", " ", "a", " ", "t", "i", "m", "e", "r", " ", "f", "o", "r", " ", "5", " ", "m", "i", "n", "u", "t", "e", "s">>

TimerLabeled ==
    <<"s", "e", "t", " ", "a", " ", "t", "i", "m", "e", "r", " ", "f", "o", "r", " ", "{", "5", " ", "m", "i", "n", "u", "t", "e", "s", "|", "s", "y", "s", "_", "d", "u", "r", "a", "t", "i", "o", "n", "}">>

\* the generated (clean, labeled) pairs: the clean text in step with the
\* annotated one, or out of step with it by its last segment
QueryPairs ==
    UNION { { [clean |-> JoinField(segs, FALSE),
               labeled |-> JoinField(segs, TRUE)],
              [clean |-> JoinField(SubSeq(segs, 1, Len(segs) - 1), FALSE),
               labeled |-> JoinField(segs, TRUE)] } :
            segs \in SeqsUpTo(Segments, MaxSegments) }

TimerPair == [clean |-> TimerClean, labeled |-> TimerLabeled]

\* the corpora: empty, one generated query, or the scenario followed by one
Corpora ==
    {<<>>, <<TimerPair>>}
        \cup {<<pair>> : pair \in QueryPairs}
        \cup {<<TimerPair, pair>> : pair \in QueryPairs}

InitSpans ==
    /\ \E corpus \in Corpora :
            /\ clean = [k \in 1..Len(corpus) |-> corpus[k].clean]
            /\ labeled = [k \in 1..Len(corpus) |-> corpus[k].labeled]
    /\ all_spans = NoResult
    /\ spans_pc = "start"
    /\ IdleEval /\ IdleMain /\ IdleCompare /\ IdleConflict
    /\ IdleFetch /\ IdleParse

GetExpectedSpans ==
    /\ spans_pc = "start"
    /\ LET r == get_expected_spans(clean, labeled)
       IN  IF r = Raised
           THEN /\ spans_pc' = "raised"
                /\ UNCHANGED all_spans
           ELSE /\ spans_pc' = "returned"
                /\ all_spans' = r
    /\ UNCHANGED <<clean, labeled>>
    /\ UNCHANGED exceptSpans

NextSpans == GetExpectedSpans

SpecSpans == InitSpans /\ [][NextSpans]_vars

---------------------------------------------------------------------------
(* Claims checked under SpecSpans *)

\* the text of the clean query that a span covers
Covered(clean_query, span) == Slice(clean_query, span[1], span[2])

\* C2: the spans returned for a query are in marker order (the k-th span
\* covers the text of the k-th marker), each has start < end, and each
\* starts at or after the end of the span before it, also when the same
\* entity text is repeated.
C2_SpansIncreasing ==
    spans_pc = "returned" =>
        /\ Len(all_spans) = ZipLen(clean, labeled)
        /\ \A q \in 1..Len(all_spans) :
                /\ Len(all_spans[q]) = Len(FindEntities(labeled[q]))
                /\ \A k \in 1..Len(all_spans[q]) :
                        /\ all_spans[q][k][1] < all_spans[q][k][2]
                        /\ Covered(clean[q], all_spans[q][k])
                                = FindEntities(labeled[q])[k]
                        /\ k > 1 => all_spans[q][k][1] >= all_spans[q][k - 1][2]

\* C2 witness: a query whose three markers carry the same entity text
C2_Witness ==
    /\ spans_pc = "returned"
    /\ \E q \in 1..Len(all_spans) :
            /\ Len(all_spans[q]) = 3
            /\ \A k \in 1..3 : Covered(clean[q], all_spans[q][k]) = <<"5">>

Duration == <<"d", "u", "r", "a", "t", "i", "o", "n">>

\* the scenario is the first query of the corpus and its spans were returned
TimerScenarioReturned ==
    /\ spans_pc = "returned"
    /\ Len(clean) >= 1
    /\ clean[1] = TimerClean
    /\ labeled[1] = TimerLabeled

\* C8 as stated: the scenario yields exactly the span (19, 28, "duration")
C8_TimerSpanAsStated ==
    TimerScenarioReturned => all_spans[1] = << <<19, 28, Duration>> >>

\* C8 amended: the scenario yields exactly the span (16, 25, "duration"),
\* the character offsets of "5 minutes" in the clean query
C8_TimerSpan ==
    TimerScenarioReturned =>
        /\ all_spans[1] = << <<16, 25, Duration>> >>
        /\ Covered(clean[1], all_spans[1][1])
                = <<"5", " ", "m", "i", "n", "u", "t", "e", "s">>

\* C8 witness: the spans of the scenario were returned
C8_Witness == TimerScenarioReturned /\ Len(all_spans[1]) = 1

---------------------------------------------------------------------------
(* get_mallard_results / get_duckling_results *)

\* most queries handed to a recognizer client
MaxFetched == 2

QueryTexts == {"what is 5 plus 5", "at 5 pm"}

\* what a recognizer answers for the query at index i: the model keeps the
\* index with the answer so that the place of an answer in the list can be
\* compared with the place of its query
AnswerFor(i, query) == [query_index |-> i, text |-> query]

\* responses.append(response['data']) / responses.append(response)
AppendResponse(responses, answer) == Append(responses, answer)

\* the except branch: the error is printed and responses is left alone
KeepResponses(responses) == responses

---------------------------------------------------------------------------
(* SpecFetch: the two recognizer clients, one loop iteration per action *)

InitFetch ==
    /\ queries \in SeqsUpTo(QueryTexts, MaxFetched)
    /\ mallard_i = 0
    /\ mallard_responses = <<>>
    /\ duckling_i = 0
    /\ duckling_responses = <<>>
    /\ IdleEval /\ IdleMain /\ IdleCompare /\ IdleConflict
    /\ IdleSpans /\ IdleParse

\* lines 72-74 run through
MallardCallAnswers ==
    /\ mallard_i < Len(queries)
    /\ mallard_responses' =
            AppendResponse(mallard_responses,
                           AnswerFor(mallard_i, queries[mallard_i + 1]))
    /\ mallard_i' = mallard_i + 1
    /\ UNCHANGED <<queries, duckling_i, duckling_responses>>
    /\ UNCHANGED exceptFetch

\* the request fails, the body is no JSON, or the JSON has no 'data':
\* lines 75-77
MallardCallFails ==
    /\ mallard_i < Len(queries)
    /\ mallard_responses' = KeepResponses(mallard_responses)
    /\ mallard_i' = mallard_i + 1
    /\ UNCHANGED <<queries, duckling_i, duckling_responses>>
    /\ UNCHANGED exceptFetch

\* lines 100-102 run through
DucklingCallAnswers ==
    /\ duckling_i < Len(queries)
    /\ duckling_responses' =
            AppendResponse(duckling_responses,
                           AnswerFor(duckling_i, queries[duckling_i + 1]))
    /\ duckling_i' = duckling_i + 1
    /\ UNCHANGED <<queries, mallard_i, mallard_responses>>
    /\ UNCHANGED exceptFetch

\* the request fails or the body is no JSON: lines 103-105
DucklingCallFails ==
    /\ duckling_i < Len(queries)
    /\ duckling_responses' = KeepResponses(duckling_responses)
    /\ duckling_i' = duckling_i + 1
    /\ UNCHANGED <<queries, mallard_i, mallard_responses>>
    /\ UNCHANGED exceptFetch

NextFetch ==
    \/ MallardCallAnswers
    \/ MallardCallFails
    \/ DucklingCallAnswers
    \/ DucklingCallFails

SpecFetch == InitFetch /\ [][NextFetch]_vars

---------------------------------------------------------------------------
(* Claims checked under SpecFetch *)

\* an explicit marker for a query that got no answer
NoResponse == [query_index |-> -1, text |-> "no response"]

\* a returned list has one entry per query, entry i being the answer for
\* query i or a no-response marker
AlignedWithQueries(responses) ==
    /\ Len(responses) = Len(queries)
    /\ \A i \in 0..(Len(queries) - 1) :
            \/ responses[i + 1] = NoResponse
            \/ responses[i + 1] = AnswerFor(i, queries[i + 1])

\* C5: once a client has processed its n queries, with any subset of the
\* calls failing, its list has exactly n entries and entry i is the response
\* (or a no-response marker) of query i.
C5_ResponsesAligned ==
    /\ mallard_i = Len(queries) => AlignedWithQueries(mallard_responses)
    /\ duckling_i = Len(queries) => AlignedWithQueries(duckling_responses)

---------------------------------------------------------------------------
(* Raw recognizer records: a JSON object is a function from the keys it    *)
(* has; r['k'] raises KeyError when k is not in DOMAIN r.                  *)

Has(r, k) == k \in DOMAIN r

\* d.get(k, None)
Get(r, k) == IF Has(r, k) THEN r[k] ELSE None

\* possible_entities[dimension][span] = value on a defaultdict(dict)
Store(pe, dimension, span, value) ==
    Put(pe, dimension,
        Put(IF Has(pe, dimension) THEN pe[dimension] ELSE EmptyDict,
            span, value))

Temperature == "temperature"

Mallard == "mallard"
Duckling == "duckling"

ReturnedPc == "returned"
RaisedPc == "raised"

---------------------------------------------------------------------------
(* parse_mallard_response *)

\* line 120 raises
MallardNoDimension(r) == ~Has(r, "dimension")

\* line 121 or line 123 raises (KeyError, or IndexError on an empty list)
MallardNoSpanOrValue(r) ==
    \/ ~Has(r, "entity")
    \/ ~Has(r.entity, "start")
    \/ ~Has(r.entity, "end")
    \/ ~Has(r, "value")
    \/ Len(r.value) = 0

Unbound == "unbound"

\* The whole loop is inside one try.  The handler prints dimension, r and
\* the exception, then the function returns what it has; print(dimension)
\* itself raises UnboundLocalError when no record has bound dimension yet.
RECURSIVE MallardLoop(_, _, _, _)
MallardLoop(resp, k, dimension, pe) ==
    IF k > Len(resp)
    THEN [pc |-> ReturnedPc, possible_entities |-> pe]
    ELSE LET r == resp[k]
         IN  IF MallardNoDimension(r)
             THEN IF dimension = Unbound
                  THEN [pc |-> RaisedPc, possible_entities |-> pe]
                  ELSE [pc |-> ReturnedPc, possible_entities |-> pe]
             ELSE IF MallardNoSpanOrValue(r)
                  THEN [pc |-> ReturnedPc, possible_entities |-> pe]
                  ELSE MallardLoop(resp, k + 1, r.dimension,
                          Store(pe, r.dimension,
                                <<r.entity.start, r.entity.end>>, r.value[1]))

parse_mallard_response(resp) == MallardLoop(resp, 1, Unbound, EmptyDict)

---------------------------------------------------------------------------
(* parse_duckling_response *)

TypedDimensions == {Time, Temperature, Money}

\* r['value']['type']
HasType(r) == Has(r, "value") /\ Has(r.value, "type")

\* r['value']['value']
HasScalar(r) == Has(r, "value") /\ Has(r.value, "value")

\* (r['value'].get('from', None), r['value'].get('to', None))
IntervalOf(r) == <<Get(r.value, "from"), Get(r.value, "to")>>

\* some subscript of lines 143-172 raises KeyError for this record
DucklingRecordRaises(r) ==
    \/ ~Has(r, "dim")
    \/ ~Has(r, "start")
    \/ ~Has(r, "end")
    \/ IF r.dim \in TypedDimensions
       THEN \/ ~HasType(r)
            \/ r.value.type = "value" /\ ~HasScalar(r)
       ELSE ~HasScalar(r)

\* lines 147-156: value stays None for a time of another type
TimeValue(r) ==
    IF r.value.type = "value"
    THEN r.value.value
    ELSE IF r.value.type = "interval"
         THEN IntervalOf(r)
         ELSE None

\* lines 158-170: temperature and amount-of-money
ValueOrInterval(r) ==
    IF r.value.type = "value" THEN r.value.value ELSE IntervalOf(r)

DucklingValue(r) ==
    IF r.dim = Time
    THEN TimeValue(r)
    ELSE IF r.dim \in {Temperature, Money}
         THEN ValueOrInterval(r)
         ELSE r.value.value

\* line 174
StoreDuckling(pe, r) == Store(pe, r.dim, <<r.start, r.end>>, DucklingValue(r))

\* no try: a KeyError leaves the function
RECURSIVE DucklingLoop(_, _, _)
DucklingLoop(resp, k, pe) ==
    IF k > Len(resp)
    THEN [pc |-> ReturnedPc, possible_entities |-> pe]
    ELSE IF DucklingRecordRaises(resp[k])
         THEN [pc |-> RaisedPc, possible_entities |-> pe]
         ELSE DucklingLoop(resp, k + 1, StoreDuckling(pe, resp[k]))

parse_duckling_response(resp) == DucklingLoop(resp, 1, EmptyDict)

---------------------------------------------------------------------------
(* SpecParse: the two normalizers on small raw responses *)

\* most records of a raw response
MaxRecords == 2

\* Mallard records: well formed, or with one expected field missing
MallardRecords ==
    {[dimension |-> d, entity |-> [start |-> sp[1], end |-> sp[2]],
      value |-> <<"top", "second">>] : d \in {Number, Time}, sp \in SpanKeys}
        \cup {[entity |-> [start |-> sp[1], end |-> sp[2]],
                value |-> <<"top">>] : sp \in SpanKeys}
        \cup {[dimension |-> Number, entity |-> [start |-> sp[1]],
                value |-> <<"top">>] : sp \in SpanKeys}
        \cup {[dimension |-> Number,
                entity |-> [start |-> sp[1], end |-> sp[2]],
                value |-> <<>>] : sp \in SpanKeys}

\* the value objects of Duckling records
DucklingValues ==
    {[type |-> "value", value |-> "scalar"],
     [type |-> "interval", from |-> "lo", to |-> "hi"],
     [type |-> "interval", from |-> "lo"],
     [type |-> "duration", value |-> "scalar"],
     [type |-> "value"],
     [value |-> "scalar"]}

\* Duckling records: every dimension with every value object, at one span
\* or the other, and a record with no value at all
DucklingRecords ==
    {[dim |-> d, start |-> SpanA[1], end |-> SpanA[2], value |-> v] :
        d \in {Time, Temperature, Money, Number}, v \in DucklingValues}
        \cup {[dim |-> Time, start |-> SpanB[1], end |-> SpanB[2], value |-> v] :
                v \in DucklingValues}
        \cup {[dim |-> Number, start |-> SpanB[1], end |-> SpanB[2]]}

InitParse ==
    /\ \/ /\ recognizer = Mallard
          /\ response \in SeqsUpTo(MallardRecords, MaxRecords)
       \/ /\ recognizer = Duckling
          /\ response \in SeqsUpTo(DucklingRecords, MaxRecords)
    /\ possible_entities = NoResult
    /\ parse_pc = "start"
    /\ IdleEval /\ IdleMain /\ IdleCompare /\ IdleConflict
    /\ IdleSpans /\ IdleFetch

ParseMallardResponse ==
    /\ parse_pc = "start"
    /\ recognizer = Mallard
    /\ LET r == parse_mallard_response(response)
       IN  /\ parse_pc' = r.pc
           /\ possible_entities' =
                IF r.pc = ReturnedPc THEN r.possible_entities ELSE NoResult
    /\ UNCHANGED <<recognizer, response>>
    /\ UNCHANGED exceptParse

ParseDucklingResponse ==
    /\ parse_pc = "start"
    /\ recognizer = Duckling
    /\ LET r == parse_duckling_response(response)
       IN  /\ parse_pc' = r.pc
           /\ possible_entities' =
                IF r.pc = ReturnedPc THEN r.possible_entities ELSE NoResult
    /\ UNCHANGED <<recognizer, response>>
    /\ UNCHANGED exceptParse

NextParse == ParseMallardResponse \/ ParseDucklingResponse

SpecParse == InitParse /\ [][NextParse]_vars

---------------------------------------------------------------------------
(* Claims checked under SpecParse *)

\* the normalized output holds an entry for the span under the dimension
Appears(pe, dimension, span) ==
    /\ dimension \in DOMAIN pe
    /\ span \in DOMAIN pe[dimension]

\* a Mallard record with every expected field
WellFormedMallard(r) ==
    /\ {"dimension", "entity", "value"} \subseteq DOMAIN r
    /\ {"start", "end"} \subseteq DOMAIN r.entity
    /\ Len(r.value) >= 1

HasSpanFields(r) == {"dim", "start", "end"} \subseteq DOMAIN r

\* a Duckling record of a typed dimension whose type is neither "value"
\* nor "interval"
UnrecognizedType(r) ==
    /\ HasSpanFields(r)
    /\ r.dim \in {Time, Temperature, Money}
    /\ "value" \in DOMAIN r
    /\ "type" \in DOMAIN r.value
    /\ r.value.type \notin {"value", "interval"}

\* a Duckling record with every expected field and a recognized type
WellFormedDuckling(r) ==
    /\ HasSpanFields(r)
    /\ "value" \in DOMAIN r
    /\ IF r.dim \in {Time, Temperature, Money}
       THEN /\ "type" \in DOMAIN r.value
            /\ r.value.type \in {"value", "interval"}
            /\ r.value.type = "value" => "value" \in DOMAIN r.value
       ELSE "value" \in DOMAIN r.value

\* C3: when parse_duckling_response is given well-formed records and
\* records of a typed dimension with an unrecognized type, it returns, the
\* output holds no entry for the span of an unrecognized record under its
\* dimension (unless a well-formed record has that dimension and span), and
\* every well-formed record is normalized.
C3_UnrecognizedTypeSkipped ==
    ( /\ recognizer = Duckling
      /\ parse_pc \notin {"start", Idle}
      /\ \A k \in 1..Len(response) :
            WellFormedDuckling(response[k]) \/ UnrecognizedType(response[k]) )
    =>
        /\ parse_pc = ReturnedPc
        /\ \A k \in 1..Len(response) :
                LET r == response[k]
                IN  IF WellFormedDuckling(r)
                    THEN Appears(possible_entities, r.dim, <<r.start, r.end>>)
                    ELSE (\A j \in 1..Len(response) :
                            ~ ( /\ WellFormedDuckling(response[j])
                                /\ response[j].dim = r.dim
                                /\ response[j].start = r.start
                                /\ response[j].end = r.end ))
                         => ~Appears(possible_entities, r.dim,
                                     <<r.start, r.end>>)

\* C4: a normalizer given a response with malformed records does not
\* raise, and every well-formed record of the response, before or after a
\* malformed one, appears in the normalized output.
C4_MalformedRecordIsolated ==
    parse_pc \notin {"start", Idle} =>
        /\ parse_pc = ReturnedPc
        /\ \A k \in 1..Len(response) :
                LET r == response[k]
                IN  IF recognizer = Mallard
                    THEN WellFormedMallard(r) =>
                            Appears(possible_entities, r.dimension,
                                    <<r.entity.start, r.entity.end>>)
                    ELSE WellFormedDuckling(r) =>
                            Appears(possible_entities, r.dim,
                                    <<r.start, r.end>>)

=============================================================================
